---- MODULE Spec2Model ----
(***************************************************************************)
(* Model of the Amazon product analytics pipeline.                         *)
(*                                                                         *)
(*   src/pyspark_implementation.py  AmazonProductAnalyzer and main()       *)
(*   src/dashboard_notebook.py      AmazonDashboard and its __main__ block *)
(*                                                                         *)
(* A raw CSV cell is a sequence of one-character strings; the empty        *)
(* sequence is the empty cell, which both readers load as null / NaN.      *)
(* The character "R" stands for the rupee sign and "x" for a letter that   *)
(* is part of no numeric literal.  Numbers are fixed-point integers in     *)
(* units of 1/Unit, so that every decimal literal of the modelled length   *)
(* is exact; ratings, prices and thresholds are compared in these units.   *)
(* Review counts are plain integers.                                       *)
(***************************************************************************)
EXTENDS Integers, Sequences, FiniteSets, TLC

VARIABLES
    entry,          \* which program runs: "analyzer", "dashboard", "cleaner"
    caller,         \* who calls the methods: the script's "main" block, or
                    \* a "session" calling the methods of the object itself
    csv_files,      \* the input files found at data_path, each a table
    pc,             \* position of the running script
    raw_df,         \* AmazonProductAnalyzer.raw_df / AmazonDashboard.df
    processed_df,   \* self.processed_df of either class
    feature_df,     \* AmazonProductAnalyzer.feature_df
    model_df,       \* the labelled table of build_success_classification_model
    models,         \* AmazonProductAnalyzer.models (set of keys)
    clustered_df,   \* AmazonProductAnalyzer.clustered_df (attribute set or not)
    saved,          \* tables written by save_results
    spark_stopped,  \* number of spark.stop() calls
    error,          \* the exception raised last, "" if none
    printed,        \* what the program printed: reports and final messages
    trace,          \* the stages executed so far, in order
    probe           \* input and outputs of the field cleaners run on one cell

vars == <<entry, caller, csv_files, pc, raw_df, processed_df, feature_df, model_df,
          models, clustered_df, saved, spark_stopped, error, printed, trace,
          probe>>

-----------------------------------------------------------------------------
(* Bounds of the model *)

MaxLen == 4         \* longest raw cell enumerated for the field cleaners
MaxRows == 2        \* most rows over all input files
MaxFiles == 2       \* most input files found by the glob
MaxPrice == 60      \* the greatest price classified, in hundreds
MaxCount == 40      \* greatest review count the quality score is taken of

-----------------------------------------------------------------------------
(* Characters, strings and numbers *)

Digits == {"0", "1", "2", "3", "4", "5", "6", "7", "8", "9"}

DigitVal(c) ==
    CASE c = "0" -> 0 [] c = "1" -> 1 [] c = "2" -> 2 [] c = "3" -> 3
      [] c = "4" -> 4 [] c = "5" -> 5 [] c = "6" -> 6 [] c = "7" -> 7
      [] c = "8" -> 8 [] c = "9" -> 9

RECURSIVE Pow10(_)
Pow10(n) == IF n = 0 THEN 1 ELSE 10 * Pow10(n - 1)

\* One unit of the fixed-point numbers: enough decimals for every literal
\* of at most MaxLen characters.
Unit == Pow10(MaxLen - 1)

\* Cells of a cleaned column: a number, a missing value (null / NaN), or,
\* in a pandas column that astype left unconverted, the text itself.
Num(n) == [kind |-> "num", v |-> n, s |-> <<>>]
Null == [kind |-> "null", v |-> 0, s |-> <<>>]
Text(str) == [kind |-> "str", v |-> 0, s |-> str]

IsNum(c) == c.kind = "num"
IsNull(c) == c.kind = "null"
IsText(c) == c.kind = "str"

AllStrings(chars, n) == UNION {[1..k -> chars] : k \in 0..n}

AllDigits(s) == \A i \in 1..Len(s) : s[i] \in Digits

RECURSIVE DigitsValue(_)
DigitsValue(s) ==
    IF s = <<>> THEN 0
    ELSE 10 * DigitsValue(SubSeq(s, 1, Len(s) - 1)) + DigitVal(s[Len(s)])

\* regexp_replace(col, '[..]', '') / .str.replace('[..]', '', regex=True):
\* every character of the class is removed.
RemoveChars(s, class) == SelectSeq(s, LAMBDA c : c \notin class)

RECURSIVE TrimLeft(_)
TrimLeft(s) == IF s # <<>> /\ s[1] = " " THEN TrimLeft(Tail(s)) ELSE s

RECURSIVE TrimRight(_)
TrimRight(s) ==
    IF s # <<>> /\ s[Len(s)] = " "
    THEN TrimRight(SubSeq(s, 1, Len(s) - 1)) ELSE s

Trim(s) == TrimRight(TrimLeft(s))

\* Position of the first "." of s, Len(s) + 1 if there is none.
RECURSIVE DotPos(_, _)
DotPos(s, i) ==
    IF i > Len(s) THEN i ELSE IF s[i] = "." THEN i ELSE DotPos(s, i + 1)

Unsigned(s) == IF s # <<>> /\ s[1] = "-" THEN Tail(s) ELSE s
Sign(s) == IF s # <<>> /\ s[1] = "-" THEN -1 ELSE 1
IntPart(s) == SubSeq(s, 1, DotPos(s, 1) - 1)
FracPart(s) == SubSeq(s, DotPos(s, 1) + 1, Len(s))

\* A decimal floating-point literal, as Float.parseFloat and Python's
\* float() accept it over this alphabet: optional sign, digits with at most
\* one point and at least one digit, surrounding blanks ignored.
IsFloatLiteral(s) ==
    LET u == Unsigned(Trim(s)) IN
        /\ AllDigits(IntPart(u))
        /\ AllDigits(FracPart(u))
        /\ Len(IntPart(u)) + Len(FracPart(u)) >= 1

FloatValue(s) ==
    LET u == Unsigned(Trim(s))
        f == FracPart(u)
    IN  Sign(Trim(s)) *
            (DigitsValue(IntPart(u)) * Unit
               + (DigitsValue(f) * Unit) \div Pow10(Len(f)))

\* An integer literal as Python's int() accepts it: optional sign, digits.
IsIntLiteral(s) ==
    LET u == Unsigned(Trim(s)) IN u # <<>> /\ AllDigits(u)

IntValue(s) == Sign(Trim(s)) * DigitsValue(Unsigned(Trim(s)))

-----------------------------------------------------------------------------
(* Field cleaners of AmazonProductAnalyzer.data_cleaning (Spark SQL) *)

\* cast(FloatType) of a string: the parsed number, null when it does not
\* parse (the session does not enable ANSI mode).
CastFloat(s) == IF IsFloatLiteral(s) THEN Num(FloatValue(s)) ELSE Null

\* cast(IntegerType) of a string (UTF8String.toInt): blanks trimmed, an
\* optional sign, digits, then optionally a point followed by digits only;
\* the fraction is dropped, and the digits before the point may be absent.
CastInteger(s) ==
    LET t == Trim(s)
        u == Unsigned(t)
    IN  IF u # <<>> /\ AllDigits(IntPart(u)) /\ AllDigits(FracPart(u))
        THEN Num(Sign(t) * DigitsValue(IntPart(u)))
        ELSE Null

\* regexp_replace(regexp_replace(c, '[R,]', ''), '\\s+', '').cast(FloatType())
analyzer_price_clean(cell) ==
    IF cell = <<>> THEN Null
    ELSE CastFloat(RemoveChars(RemoveChars(cell, {"R", ","}), {" "}))

\* rlike('^[0-5]\\.[0-9]$')
RatingPattern(s) ==
    /\ Len(s) = 3
    /\ s[1] \in {"0", "1", "2", "3", "4", "5"}
    /\ s[2] = "."
    /\ s[3] \in Digits

\* when(col('ratings').rlike(..), col('ratings').cast(FloatType())).otherwise(None)
analyzer_ratings_clean(cell) ==
    IF cell # <<>> /\ RatingPattern(cell) THEN CastFloat(cell) ELSE Null

\* regexp_replace(col('no_of_ratings'), ',', '').cast(IntegerType())
analyzer_no_of_ratings_clean(cell) ==
    IF cell = <<>> THEN Null ELSE CastInteger(RemoveChars(cell, {","}))

-----------------------------------------------------------------------------
(* Field cleaners of AmazonDashboard.load_and_process_data (pandas) *)

\* .str.replace('[R,]', '', regex=True).str.replace(' ', ''): NaN stays NaN.
dashboard_price_text(cell) ==
    IF cell = <<>> THEN Null
    ELSE Text(RemoveChars(RemoveChars(cell, {"R", ","}), {" "}))

\* .str.replace(',', '')
dashboard_count_text(cell) ==
    IF cell = <<>> THEN Null ELSE Text(RemoveChars(cell, {","}))

\* .astype(float, errors='ignore') on a whole column: every cell converted
\* when every text cell is a float literal (NaN stays NaN); when one cell
\* fails, the error is ignored and the column is returned as it was, text.
AstypeFloatIgnore(col) ==
    IF \A i \in 1..Len(col) : IsNull(col[i]) \/ IsFloatLiteral(col[i].s)
    THEN [i \in 1..Len(col) |->
              IF IsNull(col[i]) THEN Null ELSE Num(FloatValue(col[i].s))]
    ELSE col

\* .astype(int, errors='ignore') on a whole column: converted when every
\* cell is an integer literal; a NaN cell cannot become an integer, so a
\* column holding one stays text as well.
AstypeIntIgnore(col) ==
    IF \A i \in 1..Len(col) : IsText(col[i]) /\ IsIntLiteral(col[i].s)
    THEN [i \in 1..Len(col) |-> Num(IntValue(col[i].s))]
    ELSE col

\* pd.to_numeric(.., errors='coerce') of one cell: any numeric literal is
\* parsed, everything else becomes NaN.
dashboard_ratings_clean(cell) ==
    IF cell # <<>> /\ IsFloatLiteral(cell) THEN Num(FloatValue(cell)) ELSE Null

-----------------------------------------------------------------------------
(* Tables *)

\* A dataframe attribute: None until a stage assigns it, then its rows.
None == [isNone |-> TRUE, rows |-> <<>>]
DF(rows) == [isNone |-> FALSE, rows |-> rows]

Column(rows, name) == [i \in 1..Len(rows) |-> rows[i][name]]

\* The rows of a table at the positions of the set keep, in table order.
RECURSIVE Rows(_, _, _)
Rows(rows, keep, i) ==
    IF i > Len(rows) THEN <<>>
    ELSE (IF i \in keep THEN <<rows[i]>> ELSE <<>>) \o Rows(rows, keep, i + 1)

RECURSIVE Concat(_)
Concat(tables) ==
    IF tables = <<>> THEN <<>> ELSE Head(tables) \o Concat(Tail(tables))

Product(name, cat, sub, ratings, count, disc, actual) ==
    [name |-> name, main_category |-> cat, sub_category |-> sub,
     ratings |-> ratings, no_of_ratings |-> count,
     discount_price |-> disc, actual_price |-> actual]

\* The rows input files are made of.  An empty main_category is a missing
\* category.  Prices and counts carry the formats of the scraped data
\* (rupee sign, thousands separators) and its defects.
Catalog ==
    { Product("tv", "Electronics", "TVs", <<"4", ".", "5">>,
              <<"1", ",", "2", "3", "4">>, <<"R", "9", "9", "9">>,
              <<"R", "1", ",", "2", "3", "4">>),
      Product("cable", "Electronics", "Cables", <<"3", ".", "5">>,
              <<"1", "2">>, <<"R", "5", "0", "0">>, <<>>),
      Product("case", "Electronics", "Cables", <<"4">>,
              <<"8">>, <<"R", "3", "0", "0">>, <<"R", "3", "0", "0">>),
      Product("mug", "Home", "Kitchen", <<"5", ".", "9">>,
              <<"4", "0">>, <<"R", "1", "5", "0">>, <<"R", "0">>),
      Product("lamp", "Home", "Lighting", <<"4", ".", "0">>,
              <<"-", "5">>, <<"5", "0", "0">>, <<"-", "5">>),
      Product("toy", "Toys", "Games", <<"4", ".", "5">>,
              <<"-", "5">>, <<"R", "-", "9">>, <<"R", "-", "5">>),
      Product("book", "Books", "Fiction", <<"4", ".", "5">>,
              <<"1", ",", "2", "3", "4">>, <<"x">>, <<"R", "5", "0", "0">>),
      Product("tv", "Electronics", "TVs", <<"x">>,
              <<"7">>, <<"R", "9", "9", "9">>, <<"R", "9", "9", "9">>),
      Product("vase", "", "Decor", <<"4", ".", "5">>,
              <<"1", ",", "2", "3", "4">>, <<"R", "9", "9", "9">>,
              <<"R", "1", ",", "2", "3", "4">>),
      Product("hub", "Electronics", "Cables", <<"4", ".", "5">>,
              <<"1", "2">>, <<"R", "5", "0", "0">>, <<"R", "9", "9", "9">>),
      Product("gift", "Home", "Decor", <<"4", ".", "5">>,
              <<"4", "0">>, <<"R", "0">>, <<"R", "0">>) }

\* All tables of at most n catalog rows.
Tables(n) == UNION {[1..k -> Catalog] : k \in 0..n}

\* The ways to cut table t into exactly f consecutive files (a file may
\* hold a header and no rows).
RECURSIVE SplitsExact(_, _)
SplitsExact(t, f) ==
    IF f = 1 THEN {<<t>>}
    ELSE UNION {{<<SubSeq(t, 1, k)>> \o r :
                    r \in SplitsExact(SubSeq(t, k + 1, Len(t)), f - 1)} :
                k \in 0..Len(t)}

\* The files a glob of data_path can find: at most MaxFiles tables holding
\* at most MaxRows rows together.  No file at all is the empty sequence.
FileSets ==
    {<<>>} \cup
    UNION {SplitsExact(t, f) : t \in Tables(MaxRows), f \in 1..MaxFiles}

-----------------------------------------------------------------------------
(* Order statistics *)

\* The values of a sequence of integers in ascending order.
RECURSIVE Sorted(_)
Sorted(s) ==
    IF s = <<>> THEN <<>>
    ELSE LET m == CHOOSE i \in 1..Len(s) : \A j \in 1..Len(s) : s[i] <= s[j]
         IN  <<s[m]>> \o Sorted(SubSeq(s, 1, m - 1) \o SubSeq(s, m + 1, Len(s)))

\* percentile_approx(col, num/den) of Spark SQL over the non-null values:
\* null on no value; otherwise, the sample being far below the sketch's
\* compression threshold, the value of rank ceil(n * num/den).
percentile_approx(values, num, den) ==
    LET n == Len(values) IN
        IF n = 0 THEN Null
        ELSE Num(Sorted(values)[(n * num + den - 1) \div den])

\* Series.quantile(num/den) of pandas (linear interpolation), times den:
\* NaN on no value; otherwise lo + frac * (hi - lo) at position
\* (n - 1) * num/den of the sorted values.
quantile(values, num, den) ==
    LET n == Len(values)
        s == Sorted(values)
        j == ((n - 1) * num) \div den
        r == ((n - 1) * num) % den
    IN  IF n = 0 THEN Null
        ELSE IF r = 0 THEN Num(den * s[j + 1])
        ELSE Num(den * s[j + 1] + r * (s[j + 2] - s[j + 1]))

-----------------------------------------------------------------------------
(* AmazonProductAnalyzer.load_data *)

DigitChar(d) ==
    CASE d = 0 -> "0" [] d = 1 -> "1" [] d = 2 -> "2" [] d = 3 -> "3"
      [] d = 4 -> "4" [] d = 5 -> "5" [] d = 6 -> "6" [] d = 7 -> "7"
      [] d = 8 -> "8" [] d = 9 -> "9"

RECURSIVE NatDigits(_)
NatDigits(n) ==
    IF n < 10 THEN <<DigitChar(n)>>
    ELSE NatDigits(n \div 10) \o <<DigitChar(n % 10)>>

RECURSIVE StripZeros(_)
StripZeros(s) ==
    IF Len(s) > 1 /\ s[Len(s)] = "0"
    THEN StripZeros(SubSeq(s, 1, Len(s) - 1)) ELSE s

\* The digits of a fraction f / Unit, zero-padded to the width of Unit.
RECURSIVE FracDigits(_, _)
FracDigits(f, width) ==
    IF width = 0 THEN <<>>
    ELSE FracDigits(f \div 10, width - 1) \o <<DigitChar(f % 10)>>

Minus(cell) == IF Sign(Trim(cell)) = -1 THEN <<"-">> ELSE <<>>

\* The string form of a cell read as IntegerType.
RenderInt(cell) == Minus(cell) \o NatDigits(DigitsValue(Unsigned(Trim(cell))))

\* The string form of a cell read as DoubleType (Double.toString).
RenderDouble(cell) ==
    LET v == Sign(Trim(cell)) * FloatValue(cell) IN
        Minus(cell) \o NatDigits(v \div Unit) \o <<".">>
          \o StripZeros(FracDigits(v % Unit, MaxLen - 1))

\* inferSchema=True on one column of one file: IntegerType when every
\* non-empty cell is an integer literal, DoubleType when every one is a
\* numeric literal, StringType otherwise (and for a column of empty cells).
InferType(col) ==
    LET cells == {col[i] : i \in 1..Len(col)} \ {<<>>} IN
        IF cells = {} THEN "string"
        ELSE IF \A c \in cells : IsIntLiteral(c) /\ Trim(c) = c THEN "int"
        ELSE IF \A c \in cells : IsFloatLiteral(c) THEN "double"
        ELSE "string"

\* The column type after unionByName of the files: the widest of theirs.
UnionType(types) ==
    IF "string" \in types THEN "string"
    ELSE IF "double" \in types THEN "double" ELSE "int"

\* A ratings cell as the column expressions of data_cleaning see it: the
\* text itself in a StringType column, else the number read from the file
\* in its string form.  (For the price and count columns the string form
\* of the number read cleans to the same value as the text, so only the
\* ratings column, which is matched against a pattern, is re-rendered.)
LoadedRating(cell, fileType, unionType) ==
    IF cell = <<>> \/ fileType = "string" THEN cell
    ELSE IF fileType = "double" \/ unionType = "double" THEN RenderDouble(cell)
    ELSE RenderInt(cell)

ReadFile(table, unionType) ==
    LET t == InferType(Column(table, "ratings")) IN
        [i \in 1..Len(table) |->
            [table[i] EXCEPT !.ratings = LoadedRating(@, t, unionType)]]

\* spark.read.csv(file, header=True, inferSchema=True) of every file,
\* then unionByName(.., allowMissingColumns=True) of all of them.
ReadAndUnion(files) ==
    LET u == UnionType({InferType(Column(files[i], "ratings")) :
                           i \in 1..Len(files)})
    IN  Concat([i \in 1..Len(files) |-> ReadFile(files[i], u)])

\* A load that does not look at the number of files found and reads
\* whatever there is.
load_data_unchecked ==
    /\ entry = "analyzer"
    /\ pc = "load_data"
    /\ raw_df' = IF csv_files = <<>> THEN DF(<<>>)
                 ELSE DF(ReadAndUnion(csv_files))
    /\ pc' = "data_cleaning"
    /\ trace' = Append(trace, "load")
    /\ UNCHANGED <<entry, caller, csv_files, processed_df, feature_df, model_df,
                   models, clustered_df, saved, spark_stopped, error, printed,
                   probe>>

\* load_data of the analyzer: glob, the check of the files found, the reads
\* and their union.
load_data ==
    /\ entry = "analyzer"
    /\ pc = "load_data"
    /\ IF csv_files = <<>>
       THEN /\ error' = "ValueError: No CSV files found in the specified path"
            /\ pc' = "except"
            /\ UNCHANGED <<raw_df, trace>>
       ELSE /\ raw_df' = DF(ReadAndUnion(csv_files))
            /\ pc' = "data_cleaning"
            /\ trace' = Append(trace, "load")
            /\ UNCHANGED error
    /\ UNCHANGED <<entry, caller, csv_files, processed_df, feature_df, model_df,
                   models, clustered_df, saved, spark_stopped, printed, probe>>

-----------------------------------------------------------------------------
(* AmazonProductAnalyzer.data_cleaning *)

DedupKey(r) == <<r.name, r.main_category, r.discount_price>>

\* A cleaning without deduplication: every row is kept.
KeepAllRows(rows) == {1..Len(rows)}

\* dropDuplicates(['name', 'main_category', 'discount_price']) keeps one
\* row of every key; which one is not specified, so every choice is an
\* outcome.  A choice is the set of positions kept.
DropDuplicatesChoices(rows) ==
    {keep \in SUBSET (1..Len(rows)) :
        \A i \in 1..Len(rows) :
            Cardinality({j \in keep : DedupKey(rows[j]) = DedupKey(rows[i])}) = 1}

\* A cleaning that also writes the texts stripped of their signs and
\* separators over the columns read.
analyzer_clean_in_place(r) ==
    [r EXCEPT !.discount_price = RemoveChars(@, {"R", ",", " "}),
              !.actual_price = RemoveChars(@, {"R", ",", " "}),
              !.no_of_ratings = RemoveChars(@, {","})]
      @@ [discount_price_clean |-> analyzer_price_clean(r.discount_price),
          actual_price_clean |-> analyzer_price_clean(r.actual_price),
          ratings_clean |-> analyzer_ratings_clean(r.ratings),
          no_of_ratings_clean |-> analyzer_no_of_ratings_clean(r.no_of_ratings)]

\* The four withColumn calls of data_cleaning on one row: the columns read
\* stay, the cleaned values go to four new columns.
analyzer_clean(r) ==
    r @@ [discount_price_clean |-> analyzer_price_clean(r.discount_price),
          actual_price_clean |-> analyzer_price_clean(r.actual_price),
          ratings_clean |-> analyzer_ratings_clean(r.ratings),
          no_of_ratings_clean |-> analyzer_no_of_ratings_clean(r.no_of_ratings)]

\* The predicate of the filter of invalid records.
analyzer_valid(r) ==
    /\ ~IsNull(r.discount_price_clean)
    /\ ~IsNull(r.ratings_clean)
    /\ ~IsNull(r.no_of_ratings_clean)
    /\ r.main_category # ""
    /\ r.discount_price_clean.v > 0
    /\ r.ratings_clean.v >= 1 * Unit
    /\ r.ratings_clean.v <= 5 * Unit

CleanRows(rows) == [i \in 1..Len(rows) |-> analyzer_clean(rows[i])]

data_cleaning ==
    /\ entry = "analyzer"
    /\ pc = "data_cleaning"
    /\ \E keep \in DropDuplicatesChoices(raw_df.rows) :
          processed_df' =
              DF(SelectSeq(CleanRows(Rows(raw_df.rows, keep, 1)),
                           analyzer_valid))
    /\ trace' = trace \o <<"deduplicate", "clean", "filter">>
    /\ pc' = "feature_engineering"
    /\ UNCHANGED <<entry, caller, csv_files, raw_df, feature_df, model_df, models,
                   clustered_df, saved, spark_stopped, error, printed, probe>>

-----------------------------------------------------------------------------
(* AmazonProductAnalyzer.feature_engineering *)

\* A percentage kept as the exact quotient num / den * 100; a zero den is
\* the division by zero.
Ratio(num, den) == [num |-> num, den |-> den]
Zero == Ratio(0, 1)

\* when(actual.isNotNull() & (actual > discount),
\*      (actual - discount) / actual * 100).otherwise(0)
analyzer_discount_percentage(r) ==
    IF ~IsNull(r.actual_price_clean)
         /\ r.actual_price_clean.v > r.discount_price_clean.v
    THEN Ratio(r.actual_price_clean.v - r.discount_price_clean.v,
               r.actual_price_clean.v)
    ELSE Zero

\* The natural logarithm of an integer x >= 1 in units of 1/1024, by the
\* binary method: the integer part of log2 by halving, ten fraction bits
\* by repeated squaring of the mantissa, then the factor ln 2 = 710/1024.
\* The library functions (StrictMath.log, numpy.log) compute the same
\* function in double precision.
Pow2(n) == 2 ^ n

RECURSIVE FloorLog2(_)
FloorLog2(x) == IF x < 2 THEN 0 ELSE 1 + FloorLog2(x \div 2)

RECURSIVE Log2Fraction(_, _)
Log2Fraction(y, bits) ==
    IF bits = 0 THEN 0
    ELSE LET sq == (y * y) \div 1024 IN
         IF sq >= 2048
         THEN Pow2(bits - 1) + Log2Fraction(sq \div 2, bits - 1)
         ELSE Log2Fraction(sq, bits - 1)

Log(x) ==
    LET k == FloorLog2(x)
        log2 == 1024 * k + Log2Fraction((1024 * x) \div Pow2(k), 10)
    IN  (710 * log2) \div 1024

\* ratings * 0.6 + (log(count) / 10) * 0.4 in units of 1/(100 Unit), for
\* the argument of the logarithm that the caller gives.
WeightedScore(rating, logarg) == 60 * rating + (4 * Unit * Log(logarg)) \div 1024

\* A score that takes the logarithm of the review count itself.
analyzer_quality_score_of_count(rating, count) ==
    IF IsNull(rating) \/ IsNull(count) \/ count.v <= 0 THEN Null
    ELSE Num(WeightedScore(rating.v, count.v))

\* col('ratings_clean') * 0.6 + (log(col('no_of_ratings_clean') + 1) / 10) * 0.4
\* Spark's log of a number that is not positive is null.
analyzer_quality_score(rating, count) ==
    IF IsNull(rating) \/ IsNull(count) \/ count.v + 1 <= 0 THEN Null
    ELSE Num(WeightedScore(rating.v, count.v + 1))

\* A quotient num / den kept exact.
Fraction(num, den) == [kind |-> "fraction", num |-> num, den |-> den]

RECURSIVE Sum(_)
Sum(values) == IF values = <<>> THEN 0 ELSE Head(values) + Sum(Tail(values))

\* when(count > 0, log(count + 1) * ratings).otherwise(0), in units of
\* 1/(1024 Unit).
review_density_score(r) ==
    IF r.no_of_ratings_clean.v > 0
    THEN Num(Log(r.no_of_ratings_clean.v + 1) * r.ratings_clean.v)
    ELSE Num(0)

\* The tertile policy: when(price <= price_p33, 'Budget')
\* .when(price <= price_p66, 'Mid-Range').otherwise('Premium')
analyzer_price_segment(r, price_p33, price_p66) ==
    IF r.discount_price_clean.v <= price_p33.v THEN "Budget"
    ELSE IF r.discount_price_clean.v <= price_p66.v THEN "Mid-Range"
    ELSE "Premium"

rating_category(r) ==
    IF 10 * r.ratings_clean.v >= 45 * Unit THEN "Excellent"
    ELSE IF r.ratings_clean.v >= 4 * Unit THEN "Good"
    ELSE IF 10 * r.ratings_clean.v >= 35 * Unit THEN "Average"
    ELSE "Poor"

review_volume(r, reviews_median, reviews_p80) ==
    IF r.no_of_ratings_clean.v >= reviews_p80.v THEN "High"
    ELSE IF r.no_of_ratings_clean.v >= reviews_median.v THEN "Medium"
    ELSE "Low"

\* Window.partitionBy('main_category'): the rows of the category of r.
\* A window over the whole table, whatever the category.
table_window(rows, r) == rows

category_window(rows, r) ==
    SelectSeq(rows, LAMBDA o : o.main_category = r.main_category)

\* avg(column).over(category_window)
category_avg(rows, r, column) ==
    LET w == category_window(rows, r)
    IN  Fraction(Sum([i \in 1..Len(w) |-> w[i][column].v]), Len(w))

\* row_number().over(Window.partitionBy('main_category')
\*                         .orderBy(desc(column))): the numberings of the
\* rows that count each category from 1 by descending value.  Spark
\* leaves the order of rows of equal value open, so each of their orders is
\* a possible numbering.
row_numbers(rows, column) ==
    {rank \in [1..Len(rows) -> 1..Len(rows)] :
        \A i \in 1..Len(rows) :
            LET same == {j \in 1..Len(rows) :
                            rows[j].main_category = rows[i].main_category}
            IN  /\ rank[i] <= Cardinality(same)
                /\ \A j \in same \ {i} :
                      /\ rank[j] # rank[i]
                      /\ rows[j][column].v > rows[i][column].v
                            => rank[j] < rank[i]}

\* The columns feature_engineering adds to row i of the cleaned table.
analyzer_features(rows, i, popularity_rank, rating_rank) ==
    LET r == rows[i]
        prices == [j \in 1..Len(rows) |-> rows[j].discount_price_clean.v]
        counts == [j \in 1..Len(rows) |-> rows[j].no_of_ratings_clean.v]
        avg_rating == category_avg(rows, r, "ratings_clean")
        avg_price == category_avg(rows, r, "discount_price_clean")
        quality == analyzer_quality_score(r.ratings_clean,
                                          r.no_of_ratings_clean)
    IN  r @@
        [discount_percentage |-> analyzer_discount_percentage(r),
         price_per_rating |->
             Fraction(r.discount_price_clean.v, r.ratings_clean.v),
         review_density_score |-> review_density_score(r),
         price_segment |->
             analyzer_price_segment(r, percentile_approx(prices, 33, 100),
                                    percentile_approx(prices, 66, 100)),
         rating_category |-> rating_category(r),
         review_volume |->
             review_volume(r, percentile_approx(counts, 5, 10),
                           percentile_approx(counts, 8, 10)),
         category_avg_rating |-> avg_rating,
         category_avg_price |-> avg_price,
         rating_vs_category_avg |->
             Fraction(r.ratings_clean.v * avg_rating.den - avg_rating.num,
                      avg_rating.den),
         price_vs_category_avg |->
             Ratio(r.discount_price_clean.v * avg_price.den - avg_price.num,
                   avg_price.num),
         popularity_rank |-> popularity_rank[i],
         rating_rank |-> rating_rank[i],
         quality_score |-> quality,
         value_score |->
             IF IsNull(quality) THEN Null
             ELSE Fraction(10 * quality.v, r.discount_price_clean.v)]

feature_engineering ==
    /\ entry = "analyzer"
    /\ pc = "feature_engineering"
    /\ \E popularity_rank \in row_numbers(processed_df.rows,
                                           "no_of_ratings_clean"),
          rating_rank \in row_numbers(processed_df.rows, "ratings_clean") :
          feature_df' =
              DF([i \in 1..Len(processed_df.rows) |->
                     analyzer_features(processed_df.rows, i,
                                       popularity_rank, rating_rank)])
    /\ trace' = Append(trace, "derive")
    /\ pc' = "build_rating_prediction_model"
    /\ UNCHANGED <<entry, caller, csv_files, raw_df, processed_df, model_df, models,
                   clustered_df, saved, spark_stopped, error, printed, probe>>

-----------------------------------------------------------------------------
(* Model training, clustering, reporting and saving of the analyzer *)

\* Fitting is the work of the ML library.  It raises on an empty table;
\* on a non-empty one the random split may still leave the training or the
\* test part unusable, so both outcomes are possible.
FitOutcomes(rows) == IF rows = <<>> THEN {FALSE} ELSE BOOLEAN

build_rating_prediction_model ==
    /\ entry = "analyzer"
    /\ pc = "build_rating_prediction_model"
    /\ \E ok \in FitOutcomes(feature_df.rows) :
          IF ok
          THEN /\ models' = models \cup {"rating_predictor"}
               /\ trace' = Append(trace, "train")
               /\ pc' = "build_success_classification_model"
               /\ UNCHANGED error
          ELSE /\ error' = "Exception: rating model could not be fitted"
               /\ pc' = "except"
               /\ UNCHANGED <<models, trace>>
    /\ UNCHANGED <<entry, caller, csv_files, raw_df, processed_df, feature_df,
                   model_df, clustered_df, saved, spark_stopped, printed,
                   probe>>

\* A wrong threshold: the median of the review counts instead of their
\* 70th percentile.
success_threshold_reviews_median(rows) ==
    percentile_approx([i \in 1..Len(rows) |-> rows[i].no_of_ratings_clean.v],
                      5, 10)

\* success_threshold_reviews: percentile_approx(no_of_ratings_clean, 0.7)
\* over self.feature_df.
success_threshold_reviews(rows) ==
    percentile_approx([i \in 1..Len(rows) |-> rows[i].no_of_ratings_clean.v],
                      7, 10)

\* ((ratings_clean >= 4.0) & (no_of_ratings_clean >= threshold)).cast(int)
analyzer_is_successful(r, threshold) ==
    IF r.ratings_clean.v >= 4 * Unit /\ r.no_of_ratings_clean.v >= threshold.v
    THEN 1 ELSE 0

analyzer_label(rows) ==
    [i \in 1..Len(rows) |->
        rows[i] @@ [is_successful |->
                       analyzer_is_successful(rows[i],
                                              success_threshold_reviews(rows))]]

build_success_classification_model ==
    /\ entry = "analyzer"
    /\ pc = "build_success_classification_model"
    /\ model_df' = DF(analyzer_label(feature_df.rows))
    /\ \E ok \in FitOutcomes(feature_df.rows) :
          IF ok
          THEN /\ models' = models \cup {"success_classifier"}
               /\ trace' = Append(trace, "train")
               /\ pc' = "product_clustering"
               /\ UNCHANGED error
          ELSE /\ error' = "Exception: success classifier could not be fitted"
               /\ pc' = "except"
               /\ UNCHANGED <<models, trace>>
    /\ UNCHANGED <<entry, caller, csv_files, raw_df, processed_df, feature_df,
                   clustered_df, saved, spark_stopped, printed, probe>>

\* self.models['kmeans'].transform(cluster_df): the feature rows with the
\* column prediction, a cluster id of 0..4 (k = 5).  Every record is
\* given a centre of its own as long as there are centres left.
kmeans_transform(rows) ==
    [i \in 1..Len(rows) |-> rows[i] @@ [prediction |-> (i - 1) % 5]]

product_clustering ==
    /\ entry = "analyzer"
    /\ pc = "product_clustering"
    /\ \E ok \in FitOutcomes(feature_df.rows) :
          IF ok
          THEN /\ models' = models \cup {"kmeans"}
               /\ clustered_df' = DF(kmeans_transform(feature_df.rows))
               /\ trace' = Append(trace, "cluster")
               /\ pc' = "advanced_analytics"
               /\ UNCHANGED error
          ELSE /\ error' = "Exception: clustering could not be fitted"
               /\ pc' = "except"
               /\ UNCHANGED <<models, clustered_df, trace>>
    /\ UNCHANGED <<entry, caller, csv_files, raw_df, processed_df, feature_df,
                   model_df, saved, spark_stopped, printed, probe>>

\* The orders of the elements of a finite set.
Arrangements(S) ==
    {f \in [1..Cardinality(S) -> S] :
        \A i, j \in 1..Cardinality(S) : f[i] = f[j] => i = j}

\* a / b < c / d for positive b and d, by the integer parts and then the
\* inverted remainders, so that no product is formed.
RECURSIVE QuotientLess(_, _, _, _)
QuotientLess(a, b, c, d) ==
    IF a \div b # c \div d THEN a \div b < c \div d
    ELSE IF c % d = 0 THEN FALSE
    ELSE IF a % b = 0 THEN TRUE
    ELSE QuotientLess(d, c % d, b, a % b)

\* a < b for two fractions of positive denominators.
FractionLess(a, b) == QuotientLess(a.num, a.den, b.num, b.den)

\* select(columns)
Project(r, columns) == [c \in columns |-> r[c]]

\* limit(n)
Take(rows, n) == SubSeq(rows, 1, IF Len(rows) < n THEN Len(rows) ELSE n)

\* avg(column) of a group: the mean of the values that are not null, null
\* when there is none.
avg(rows, column) ==
    LET present == SelectSeq(rows, LAMBDA r : ~IsNull(r[column]))
    IN  IF present = <<>> THEN Null
        ELSE Fraction(Sum([i \in 1..Len(present) |-> present[i][column].v]),
                      Len(present))

\* One row of category_performance.
category_performance(rows, category) ==
    LET g == SelectSeq(rows, LAMBDA r : r.main_category = category)
    IN  [main_category |-> category,
         product_count |-> Len(g),
         total_reviews |-> Sum([i \in 1..Len(g) |-> g[i].no_of_ratings_clean.v]),
         avg_quality_score |-> avg(g, "quality_score"),
         subcategory_diversity |->
             Cardinality({g[i].sub_category : i \in 1..Len(g)})]

\* orderBy(desc('avg_quality_score')): nulls last, equal scores in any
\* order.
QualityBefore(a, b) ==
    /\ ~IsNull(a.avg_quality_score)
    /\ IsNull(b.avg_quality_score)
          \/ FractionLess(b.avg_quality_score, a.avg_quality_score)

\* The fixed five-tier policy of the price elasticity analysis.
price_bucket(price) ==
    IF price.v < 500 * Unit THEN "Under 500"
    ELSE IF price.v < 1000 * Unit THEN "500-1000"
    ELSE IF price.v < 2000 * Unit THEN "1000-2000"
    ELSE IF price.v < 5000 * Unit THEN "2000-5000"
    ELSE "Above 5000"

\* The categories of the catalog and the price buckets, each in the
\* ascending order of the strings.
CategoriesAscending == <<"", "Books", "Electronics", "Home", "Toys">>
BucketsAscending ==
    <<"1000-2000", "2000-5000", "500-1000", "Above 5000", "Under 500">>

\* price_analysis: the groups of (main_category, price_bucket) with their
\* product counts, ordered by category and bucket.
price_analysis(rows) ==
    LET nb == Len(BucketsAscending)
        all == [k \in 1..(Len(CategoriesAscending) * nb) |->
                   LET category == CategoriesAscending[((k - 1) \div nb) + 1]
                       bucket == BucketsAscending[((k - 1) % nb) + 1]
                       g == SelectSeq(rows, LAMBDA r :
                               /\ r.main_category = category
                               /\ price_bucket(r.discount_price_clean) = bucket)
                   IN  [main_category |-> category,
                        price_bucket |-> bucket,
                        product_count |-> Len(g)]]
    IN  SelectSeq(all, LAMBDA g : g.product_count > 0)

\* One row of market_gaps: count('*'), avg('ratings_clean'),
\* sum('no_of_ratings_clean') of a (main_category, sub_category) group and
\* opportunity_score = demand_signal / current_products.
market_gap(rows, key) ==
    LET g == SelectSeq(rows, LAMBDA r : /\ r.main_category = key[1]
                                        /\ r.sub_category = key[2])
        demand == Sum([i \in 1..Len(g) |-> g[i].no_of_ratings_clean.v])
    IN  [main_category |-> key[1],
         sub_category |-> key[2],
         current_products |-> Len(g),
         avg_rating |-> avg(g, "ratings_clean"),
         demand_signal |-> demand,
         opportunity_score |-> Fraction(demand, Len(g))]

\* orderBy: the sequences that hold each element of the set once, no
\* element standing after one that the relation before (a set of pairs)
\* puts behind it; elements the sort key does not tell apart stand in any
\* order.
OrderedBy(S, before) ==
    {f \in Arrangements(S) :
        \A i, j \in 1..Cardinality(S) : i < j => <<f[j], f[i]>> \notin before}

\* The pairs of elements of S that a comparison puts in order.
QualityOrder(S) == {p \in S \X S : QualityBefore(p[1], p[2])}
OpportunityOrder(S) ==
    {p \in S \X S : FractionLess(p[2].opportunity_score,
                                 p[1].opportunity_score)}
ReviewsOrder(S) ==
    {p \in S \X S : p[1].no_of_ratings_clean.v > p[2].no_of_ratings_clean.v}
PriceGapOrder(S) ==
    {p \in S \X S : FractionLess(p[1].price_vs_category_avg,
                                 p[2].price_vs_category_avg)}

advanced_analytics ==
    /\ entry = "analyzer"
    /\ pc = "advanced_analytics"
    /\ LET rows == feature_df.rows
           performance ==
               {category_performance(rows, rows[i].main_category) :
                   i \in 1..Len(rows)}
           gaps == {market_gap(rows, <<rows[i].main_category,
                                       rows[i].sub_category>>) :
                       i \in 1..Len(rows)}
       IN  \E by_quality \in OrderedBy(performance, QualityOrder(performance)),
              by_opportunity \in OrderedBy(gaps, OpportunityOrder(gaps)) :
              printed' =
                  printed \o
                  << <<"category_performance", by_quality>>,
                     <<"price_analysis", price_analysis(rows)>>,
                     <<"market_gaps", Take(by_opportunity, 20)>> >>
                  \o (IF "rating_predictor" \in models
                      THEN << <<"feature_importance">> >> ELSE <<>>)
    /\ trace' = Append(trace, "aggregate")
    /\ pc' = "generate_business_insights"
    /\ UNCHANGED <<entry, caller, csv_files, raw_df, processed_df, feature_df,
                   model_df, models, clustered_df, saved, spark_stopped,
                   error, probe>>

\* top_categories: the categories of at least 50 products.
top_categories(rows) ==
    {g \in {category_performance(rows, rows[i].main_category) :
                i \in 1..Len(rows)} : g.product_count >= 50}

\* improvement_opportunities: ratings_clean < 4.0 and more than 100
\* reviews, the selected columns.
improvement_opportunities(rows) ==
    {Project(rows[i], {"name", "main_category", "ratings_clean",
                       "no_of_ratings_clean", "discount_price_clean"}) :
        i \in {j \in 1..Len(rows) : /\ rows[j].ratings_clean.v < 4 * Unit
                                     /\ rows[j].no_of_ratings_clean.v > 100}}

\* pricing_candidates: ratings_clean >= 4.5 and price_vs_category_avg
\* < -20, the selected columns.
pricing_candidates(rows) ==
    {Project(rows[i], {"name", "main_category", "ratings_clean",
                       "discount_price_clean", "price_vs_category_avg"}) :
        i \in {j \in 1..Len(rows) :
                 /\ 10 * rows[j].ratings_clean.v >= 45 * Unit
                 /\ 5 * rows[j].price_vs_category_avg.num
                       < - rows[j].price_vs_category_avg.den}}

generate_business_insights ==
    /\ entry = "analyzer"
    /\ pc = "generate_business_insights"
    /\ \E top \in OrderedBy(top_categories(feature_df.rows),
                            QualityOrder(top_categories(feature_df.rows))),
          improvement \in
              OrderedBy(improvement_opportunities(feature_df.rows),
                        ReviewsOrder(
                            improvement_opportunities(feature_df.rows))),
          pricing \in
              OrderedBy(pricing_candidates(feature_df.rows),
                        PriceGapOrder(pricing_candidates(feature_df.rows))) :
          printed' =
              printed \o
              << <<"top_categories", Take(top, 5)>>,
                 <<"improvement_opportunities", Take(improvement, 10)>>,
                 <<"underpriced", Take(pricing, 10)>> >>
    /\ trace' = Append(trace, "report")
    /\ pc' = "save_results"
    /\ UNCHANGED <<entry, caller, csv_files, raw_df, processed_df, feature_df,
                   model_df, models, clustered_df, saved, spark_stopped,
                   error, probe>>

\* write.mode('overwrite').parquet(os.path.join(output_path, path))
Parquet(path, rows) == [path |-> path, rows |-> rows]

\* A save that writes the processed dataset only.
save_results_processed_only ==
    /\ entry = "analyzer"
    /\ pc = "save_results"
    /\ saved' = {Parquet("processed_data", feature_df.rows)}
    /\ trace' = Append(trace, "persist")
    /\ pc' = "completed"
    /\ UNCHANGED <<entry, caller, csv_files, raw_df, processed_df, feature_df,
                   model_df, models, clustered_df, spark_stopped, error,
                   printed, probe>>

\* save_results: the feature table, and the selected columns of the
\* clustered table when the attribute clustered_df exists.
save_results ==
    /\ entry = "analyzer"
    /\ pc = "save_results"
    /\ saved' =
          {Parquet("processed_data", feature_df.rows)} \cup
          (IF clustered_df.isNone THEN {}
           ELSE {Parquet("product_clusters",
                         [i \in 1..Len(clustered_df.rows) |->
                             Project(clustered_df.rows[i],
                                     {"name", "main_category", "ratings_clean",
                                      "discount_price_clean", "quality_score",
                                      "prediction"})])})
    /\ trace' = Append(trace, "persist")
    /\ pc' = "completed"
    /\ UNCHANGED <<entry, caller, csv_files, raw_df, processed_df, feature_df,
                   model_df, models, clustered_df, spark_stopped, error,
                   printed, probe>>

-----------------------------------------------------------------------------
(* main() of the analyzer: the try / except / finally around the stages *)

main_completed ==
    /\ entry = "analyzer"
    /\ caller = "main"
    /\ pc = "completed"
    /\ printed' = Append(printed, <<"Analysis completed successfully!">>)
    /\ pc' = "finally"
    /\ UNCHANGED <<entry, caller, csv_files, raw_df, processed_df, feature_df,
                   model_df, models, clustered_df, saved, spark_stopped,
                   error, trace, probe>>

\* A handler that prints the error and ends the run at once, the session
\* left running.
main_except_exit ==
    /\ entry = "analyzer"
    /\ caller = "main"
    /\ pc = "except"
    /\ printed' = Append(printed, <<"Error during analysis", error>>)
    /\ pc' = "done"
    /\ UNCHANGED <<entry, caller, csv_files, raw_df, processed_df, feature_df,
                   model_df, models, clustered_df, saved, spark_stopped,
                   error, trace, probe>>

main_except ==
    /\ entry = "analyzer"
    /\ caller = "main"
    /\ pc = "except"
    /\ printed' = Append(printed, <<"Error during analysis", error>>)
    /\ pc' = "finally"
    /\ UNCHANGED <<entry, caller, csv_files, raw_df, processed_df, feature_df,
                   model_df, models, clustered_df, saved, spark_stopped,
                   error, trace, probe>>

main_finally ==
    /\ entry = "analyzer"
    /\ caller = "main"
    /\ pc = "finally"
    /\ spark_stopped' = spark_stopped + 1
    /\ pc' = "done"
    /\ UNCHANGED <<entry, caller, csv_files, raw_df, processed_df, feature_df,
                   model_df, models, clustered_df, saved, error, printed,
                   trace, probe>>

-----------------------------------------------------------------------------
(* AmazonDashboard.load_and_process_data *)

\* pd.read_csv gives a column a numeric dtype when the table has rows and
\* every cell of the column is empty or a numeric literal; the .str
\* accessor of such a column raises AttributeError.  A column holding at
\* least one other text (a rupee sign, a thousands separator) is of dtype
\* object, and so is every column of a table without rows.
StrAccessorRaises(col) ==
    /\ Len(col) > 0
    /\ \A i \in 1..Len(col) : col[i] = <<>> \/ IsFloatLiteral(col[i])

HasText(col) == \E i \in 1..Len(col) : IsText(col[i])

BothPresent(a, d) == ~IsNull(a) /\ ~IsNull(d)

\* actual > discount, the condition of np.where.  With a text column on the
\* left the comparison is done cell by cell and skips missing cells, and
\* raises TypeError on a text compared with a number; with a float column
\* on the left and a text column on the right numpy compares every cell
\* and raises on the first text.
CompareRaises(actual, discount) ==
    IF HasText(actual)
    THEN \E i \in 1..Len(actual) :
            /\ BothPresent(actual[i], discount[i])
            /\ IsText(actual[i]) # IsText(discount[i])
    ELSE HasText(discount)

\* actual - discount, evaluated by np.where for every row whatever the
\* condition: with a text column among the operands the subtraction is
\* retried on the rows where both cells are present, and raises TypeError
\* when there is one.
SubtractRaises(actual, discount) ==
    /\ HasText(actual) \/ HasText(discount)
    /\ \E i \in 1..Len(actual) : BothPresent(actual[i], discount[i])

\* np.where(actual > discount, (actual - discount) / actual * 100, 0) for
\* one row, when nothing raised: a comparison with NaN is False.
dashboard_discount_percentage(actual, discount) ==
    IF IsNum(actual) /\ IsNum(discount) /\ actual.v > discount.v
    THEN Ratio(actual.v - discount.v, actual.v)
    ELSE Zero

\* numpy's log of zero: minus infinity.
NegInf == [kind |-> "-inf", v |-> 0, s |-> <<>>]

\* ratings_clean * 0.6 + (np.log(no_of_ratings_clean + 1) / 10) * 0.4 for
\* one row of a numeric count column: NaN on a missing rating and on the
\* logarithm of a negative number, minus infinity on the logarithm of 0.
dashboard_quality_score(rating, count) ==
    IF IsNull(rating) \/ IsNull(count) \/ count.v + 1 < 0 THEN Null
    ELSE IF count.v + 1 = 0 THEN NegInf
    ELSE Num(WeightedScore(rating.v, count.v + 1))

\* dropna(subset=['discount_price_clean', 'ratings_clean',
\*                'no_of_ratings_clean'])
dashboard_valid(r) ==
    /\ ~IsNull(r.discount_price_clean)
    /\ ~IsNull(r.ratings_clean)
    /\ ~IsNull(r.no_of_ratings_clean)

\* The method from the copy of the loaded table on: the table reached, the
\* stages completed and the exception raised, "" when there is none.  The
\* quality score adds 1 to the review counts, which raises TypeError on a
\* count column left as text.
LoadAndProcess(rows) ==
    LET n == Len(rows)
        disc == AstypeFloatIgnore(
                    [i \in 1..n |-> dashboard_price_text(rows[i].discount_price)])
        act == AstypeFloatIgnore(
                    [i \in 1..n |-> dashboard_price_text(rows[i].actual_price)])
        cnt == AstypeIntIgnore(
                    [i \in 1..n |-> dashboard_count_text(rows[i].no_of_ratings)])
        rows1 == [i \in 1..n |-> rows[i] @@ [discount_price_clean |-> disc[i]]]
        rows2 == [i \in 1..n |-> rows1[i] @@ [actual_price_clean |-> act[i]]]
        rows3 == [i \in 1..n |->
                     rows2[i] @@
                        [ratings_clean |-> dashboard_ratings_clean(rows[i].ratings)]]
        rows4 == [i \in 1..n |-> rows3[i] @@ [no_of_ratings_clean |-> cnt[i]]]
        rows5 == [i \in 1..n |->
                     rows4[i] @@
                        [discount_percentage |->
                            dashboard_discount_percentage(act[i], disc[i])]]
        rows6 == [i \in 1..n |->
                     rows5[i] @@
                        [quality_score |->
                            dashboard_quality_score(rows5[i].ratings_clean,
                                                    cnt[i])]]
        strError == "AttributeError: Can only use .str accessor with string values"
        typeError == "TypeError: unsupported operand type(s)"
    IN  IF StrAccessorRaises(Column(rows, "discount_price"))
        THEN [error |-> strError, rows |-> rows, trace |-> <<"load">>]
        ELSE IF StrAccessorRaises(Column(rows, "actual_price"))
        THEN [error |-> strError, rows |-> rows1, trace |-> <<"load">>]
        ELSE IF StrAccessorRaises(Column(rows, "no_of_ratings"))
        THEN [error |-> strError, rows |-> rows3, trace |-> <<"load">>]
        ELSE IF CompareRaises(act, disc) \/ SubtractRaises(act, disc)
        THEN [error |-> typeError, rows |-> rows4, trace |-> <<"load", "clean">>]
        ELSE IF HasText(cnt)
        THEN [error |-> typeError, rows |-> rows5, trace |-> <<"load", "clean">>]
        ELSE [error |-> "", rows |-> SelectSeq(rows6, dashboard_valid),
              trace |-> <<"load", "clean", "derive", "filter">>]

\* AmazonDashboard(DATA_PATH): __init__ calls load_and_process_data.
load_and_process_data ==
    /\ entry = "dashboard"
    /\ pc = "load_and_process_data"
    /\ IF csv_files = <<>>
       THEN /\ error' = "FileNotFoundError"
            /\ pc' = "except"
            /\ UNCHANGED <<raw_df, processed_df, trace>>
       ELSE LET out == LoadAndProcess(csv_files[1]) IN
            /\ raw_df' = DF(csv_files[1])
            /\ processed_df' = DF(out.rows)
            /\ trace' = trace \o out.trace
            /\ error' = out.error
            /\ pc' = IF out.error = "" THEN "create_overview_dashboard"
                     ELSE "except"
    /\ UNCHANGED <<entry, caller, csv_files, feature_df, model_df, models,
                   clustered_df, saved, spark_stopped, printed, probe>>

-----------------------------------------------------------------------------
(* AmazonDashboard.run_complete_analysis and the __main__ block *)

create_overview_dashboard ==
    /\ entry = "dashboard"
    /\ pc = "create_overview_dashboard"
    /\ trace' = Append(trace, "report")
    /\ pc' = "create_category_analysis"
    /\ UNCHANGED <<entry, caller, csv_files, raw_df, processed_df, feature_df,
                   model_df, models, clustered_df, saved, spark_stopped,
                   error, printed, probe>>

\* The mean of discount_price_clean per category raises TypeError on a
\* price column left as text.
create_category_analysis ==
    /\ entry = "dashboard"
    /\ pc = "create_category_analysis"
    /\ IF HasText(Column(processed_df.rows, "discount_price_clean"))
       THEN /\ error' = "TypeError: agg function failed"
            /\ pc' = "except"
            /\ UNCHANGED trace
       ELSE /\ trace' = Append(trace, "aggregate")
            /\ pc' = "create_pricing_analysis"
            /\ UNCHANGED error
    /\ UNCHANGED <<entry, caller, csv_files, raw_df, processed_df, feature_df,
                   model_df, models, clustered_df, saved, spark_stopped,
                   printed, probe>>

\* pd.cut(price, bins=[0, 500, 1000, 2000, 5000, inf], labels=[..]): the
\* bins are open on the left and closed on the right, and a price in no
\* bin gets NaN.
price_segment(price) ==
    IF price.v <= 0 THEN "NaN"
    ELSE IF price.v <= 500 * Unit THEN "Budget"
    ELSE IF price.v <= 1000 * Unit THEN "Economy"
    ELSE IF price.v <= 2000 * Unit THEN "Mid-Range"
    ELSE IF price.v <= 5000 * Unit THEN "Premium"
    ELSE "Luxury"

\* r with field f set to v, whether or not r has the field already.
SetField(r, f, v) == (f :> v) @@ r

\* The median of a column: Series.median(), times 2.
median(values) == quantile(values, 1, 2)

\* groupby('main_category')['discount_price_clean'].transform('median')
\* for one row, times 2: NaN for a row without category, which belongs to
\* no group.
category_median(rows, r) ==
    IF r.main_category = "" THEN Null
    ELSE LET g == SelectSeq(rows, LAMBDA o : o.main_category = r.main_category)
         IN  median([i \in 1..Len(g) |-> g[i].discount_price_clean.v])

\* nlargest(n, column): the n rows of greatest value, greatest first, rows
\* of equal value in the order of the table.
RECURSIVE nlargest(_, _, _)
nlargest(rows, n, column) ==
    IF n = 0 \/ rows = <<>> THEN <<>>
    ELSE LET m == CHOOSE i \in 1..Len(rows) :
                     /\ \A j \in 1..Len(rows) :
                           rows[j][column].v <= rows[i][column].v
                     /\ \A j \in 1..(i - 1) :
                           rows[j][column].v < rows[i][column].v
         IN  <<rows[m]>> \o
             nlargest(SubSeq(rows, 1, m - 1) \o SubSeq(rows, m + 1, Len(rows)),
                      n - 1, column)

\* underpriced: ratings_clean >= 4.5 and a price at or below the median
\* price of the category, the 10 most reviewed, the selected columns.
underpriced(rows) ==
    LET cheap == SelectSeq(rows, LAMBDA r :
                    /\ 10 * r.ratings_clean.v >= 45 * Unit
                    /\ ~IsNull(category_median(rows, r))
                    /\ 2 * r.discount_price_clean.v
                          <= category_median(rows, r).v)
        top == nlargest(cheap, 10, "no_of_ratings_clean")
    IN  [i \in 1..Len(top) |->
            Project(top[i], {"name", "main_category", "ratings_clean",
                             "discount_price_clean", "no_of_ratings_clean"})]

create_pricing_analysis ==
    /\ entry = "dashboard"
    /\ pc = "create_pricing_analysis"
    /\ printed' = Append(printed, <<"underpriced", underpriced(processed_df.rows)>>)
    /\ processed_df' =
          DF([i \in 1..Len(processed_df.rows) |->
                 SetField(processed_df.rows[i], "price_segment",
                          price_segment(processed_df.rows[i].discount_price_clean))])
    /\ trace' = trace \o <<"derive", "aggregate", "report">>
    /\ pc' = "create_performance_dashboard"
    /\ UNCHANGED <<entry, caller, csv_files, raw_df, feature_df, model_df, models,
                   clustered_df, saved, spark_stopped, error, probe>>

\* high_review_threshold: self.processed_df['no_of_ratings_clean']
\* .quantile(0.7), in tenths.
high_review_threshold(rows) ==
    quantile([i \in 1..Len(rows) |-> rows[i].no_of_ratings_clean.v], 7, 10)

\* (ratings_clean >= 4.0) & (no_of_ratings_clean >= high_review_threshold)
dashboard_is_successful(r, threshold) ==
    r.ratings_clean.v >= 4 * Unit /\ 10 * r.no_of_ratings_clean.v >= threshold.v

dashboard_label(rows) ==
    [i \in 1..Len(rows) |->
        SetField(rows[i], "is_successful",
                 dashboard_is_successful(rows[i], high_review_threshold(rows)))]

create_performance_dashboard ==
    /\ entry = "dashboard"
    /\ pc = "create_performance_dashboard"
    /\ processed_df' = DF(dashboard_label(processed_df.rows))
    /\ trace' = trace \o <<"derive", "aggregate", "report">>
    /\ pc' = "create_market_opportunity_analysis"
    /\ UNCHANGED <<entry, caller, csv_files, raw_df, feature_df, model_df, models,
                   clustered_df, saved, spark_stopped, error, printed, probe>>

\* The dict given to agg names 'ratings_clean' twice, so the aggregate has
\* three columns; naming four raises ValueError (length mismatch).
create_market_opportunity_analysis ==
    /\ entry = "dashboard"
    /\ pc = "create_market_opportunity_analysis"
    /\ error' = "ValueError: Length mismatch"
    /\ pc' = "except"
    /\ UNCHANGED <<entry, caller, csv_files, raw_df, processed_df, feature_df,
                   model_df, models, clustered_df, saved, spark_stopped,
                   printed, trace, probe>>

\* high_potential of the summary: ratings_clean >= 4.5 and a price at or
\* below the median price of the whole table.
high_potential(rows) ==
    LET m == median([i \in 1..Len(rows) |-> rows[i].discount_price_clean.v])
    IN  SelectSeq(rows, LAMBDA r : /\ 10 * r.ratings_clean.v >= 45 * Unit
                                   /\ 2 * r.discount_price_clean.v <= m.v)

\* generate_executive_summary, and the last print of run_complete_analysis
\* when that is the caller.
generate_executive_summary ==
    /\ entry = "dashboard"
    /\ pc = "generate_executive_summary"
    /\ printed' =
          printed \o
          << <<"executive_summary",
               [total_products |-> Len(processed_df.rows),
                high_potential |-> Len(high_potential(processed_df.rows))]>> >>
          \o (IF caller = "main" THEN << <<"Analysis Complete">> >> ELSE <<>>)
    /\ trace' = trace \o <<"aggregate", "report">>
    /\ pc' = "done"
    /\ UNCHANGED <<entry, caller, csv_files, raw_df, processed_df, feature_df,
                   model_df, models, clustered_df, saved, spark_stopped,
                   error, probe>>

\* The methods a session may leave out, and the one that follows each in
\* the scripts.
Following ==
    [build_rating_prediction_model |-> "build_success_classification_model",
     build_success_classification_model |-> "product_clustering",
     product_clustering |-> "advanced_analytics",
     advanced_analytics |-> "generate_business_insights",
     generate_business_insights |-> "save_results",
     create_overview_dashboard |-> "create_category_analysis",
     create_category_analysis |-> "create_pricing_analysis",
     create_pricing_analysis |-> "create_performance_dashboard",
     create_performance_dashboard |-> "create_market_opportunity_analysis",
     create_market_opportunity_analysis |-> "generate_executive_summary",
     generate_executive_summary |-> "done"]

skip_method ==
    /\ caller = "session"
    /\ pc \in DOMAIN Following
    /\ pc' = Following[pc]
    /\ UNCHANGED <<entry, caller, csv_files, raw_df, processed_df, feature_df,
                   model_df, models, clustered_df, saved, spark_stopped,
                   error, printed, trace, probe>>

\* A session whose call of product_clustering raised goes on with the
\* methods that follow it.
session_continue ==
    /\ entry = "analyzer"
    /\ caller = "session"
    /\ pc = "except"
    /\ error = "Exception: clustering could not be fitted"
    /\ pc' = "advanced_analytics"
    /\ UNCHANGED <<entry, caller, csv_files, raw_df, processed_df, feature_df,
                   model_df, models, clustered_df, saved, spark_stopped,
                   error, printed, trace, probe>>

\* except FileNotFoundError / except Exception of the __main__ block.
dashboard_except ==
    /\ entry = "dashboard"
    /\ caller = "main"
    /\ pc = "except"
    /\ printed' = Append(printed,
                         IF error = "FileNotFoundError"
                         THEN <<"Error: Data file not found">>
                         ELSE <<"Error during analysis", error>>)
    /\ pc' = "done"
    /\ UNCHANGED <<entry, caller, csv_files, raw_df, processed_df, feature_df,
                   model_df, models, clustered_df, saved, spark_stopped,
                   error, trace, probe>>

-----------------------------------------------------------------------------
(* The field cleaners applied to one cell *)

\* The characters raw cells are enumerated over.
CellChars == {"0", "4", "5", "9", ".", ",", "-", " ", "x", "R"}

Probe(raw, fn, out) == [raw |-> raw, fn |-> fn, out |-> out]
NoProbe == Probe(<<>>, "none", Null)

Clean(fn, out) ==
    /\ entry = "cleaner"
    /\ probe.fn = "none"
    /\ probe' = Probe(probe.raw, fn, out)
    /\ UNCHANGED <<entry, caller, csv_files, pc, raw_df, processed_df, feature_df,
                   model_df, models, clustered_df, saved, spark_stopped,
                   error, printed, trace>>

clean_analyzer_price == Clean("analyzer_price", analyzer_price_clean(probe.raw))
clean_analyzer_ratings == Clean("analyzer_ratings", analyzer_ratings_clean(probe.raw))
clean_analyzer_count ==
    Clean("analyzer_count", analyzer_no_of_ratings_clean(probe.raw))

\* The pandas cleaners on a column of this one cell.
clean_dashboard_price ==
    Clean("dashboard_price",
          AstypeFloatIgnore(<<dashboard_price_text(probe.raw)>>)[1])
clean_dashboard_ratings ==
    Clean("dashboard_ratings", dashboard_ratings_clean(probe.raw))
clean_dashboard_count ==
    Clean("dashboard_count",
          AstypeIntIgnore(<<dashboard_count_text(probe.raw)>>)[1])

\* The cleaned ratings the score is computed on: 1.0, 1.1, .. 5.0.
ScoredRatings == {t * (Unit \div 10) : t \in 10..50}

Score(fn, out) ==
    /\ entry = "scorer"
    /\ probe.fn = "none"
    /\ probe' = Probe(probe.raw, fn, out)
    /\ UNCHANGED <<entry, caller, csv_files, pc, raw_df, processed_df,
                   feature_df, model_df, models, clustered_df, saved,
                   spark_stopped, error, printed, trace>>

score_analyzer ==
    Score("analyzer_quality_score",
          analyzer_quality_score(Num(probe.raw[1]), Num(probe.raw[2])))

score_dashboard ==
    Score("dashboard_quality_score",
          dashboard_quality_score(Num(probe.raw[1]), Num(probe.raw[2])))

\* The two five-tier price classifications applied to one price: each
\* writes its label next to the other's.
Tier(fn, label) ==
    /\ entry = "tiers"
    /\ fn \notin DOMAIN probe.out
    /\ probe' = Probe(probe.raw, "tier", (fn :> label) @@ probe.out)
    /\ UNCHANGED <<entry, caller, csv_files, pc, raw_df, processed_df,
                   feature_df, model_df, models, clustered_df, saved,
                   spark_stopped, error, printed, trace>>

tier_dashboard == Tier("price_segment", price_segment(Num(probe.raw)))

tier_analyzer == Tier("price_bucket", price_bucket(Num(probe.raw)))

-----------------------------------------------------------------------------
(* Specifications *)

Idle ==
    /\ raw_df = None
    /\ processed_df = None
    /\ feature_df = None
    /\ model_df = None
    /\ models = {}
    /\ clustered_df = None
    /\ saved = {}
    /\ spark_stopped = 0
    /\ error = ""
    /\ printed = <<>>
    /\ trace = <<>>

\* analyzer = AmazonProductAnalyzer(DATA_PATH) at the start of main().
InitAnalyzer ==
    /\ entry = "analyzer"
    /\ caller = "main"
    /\ csv_files \in FileSets
    /\ pc = "load_data"
    /\ probe = NoProbe
    /\ Idle

\* The __main__ block of the notebook about to build AmazonDashboard: the
\* data path names one file, which exists or not.
InitDashboard ==
    /\ entry = "dashboard"
    /\ caller = "main"
    /\ csv_files \in {fs \in FileSets : Len(fs) <= 1}
    /\ pc = "load_and_process_data"
    /\ probe = NoProbe
    /\ Idle

\* The classes used without the scripts: a caller builds the object on one
\* file and calls its methods itself, in the order of the script, leaving
\* out any of those that come after the feature table; an exception
\* reaches the caller.
InitAnalyzerSession ==
    /\ entry = "analyzer"
    /\ caller = "session"
    /\ csv_files \in {fs \in FileSets : Len(fs) <= 1}
    /\ pc = "load_data"
    /\ probe = NoProbe
    /\ Idle

InitDashboardSession ==
    /\ entry = "dashboard"
    /\ caller = "session"
    /\ csv_files \in {fs \in FileSets : Len(fs) <= 1}
    /\ pc = "load_and_process_data"
    /\ probe = NoProbe
    /\ Idle

Init ==
    \/ InitAnalyzer
    \/ InitDashboard
    \/ InitAnalyzerSession
    \/ InitDashboardSession

Next ==
    \/ load_data
    \/ data_cleaning
    \/ feature_engineering
    \/ build_rating_prediction_model
    \/ build_success_classification_model
    \/ product_clustering
    \/ advanced_analytics
    \/ generate_business_insights
    \/ save_results
    \/ main_completed
    \/ main_except
    \/ main_finally
    \/ load_and_process_data
    \/ create_overview_dashboard
    \/ create_category_analysis
    \/ create_pricing_analysis
    \/ create_performance_dashboard
    \/ create_market_opportunity_analysis
    \/ generate_executive_summary
    \/ dashboard_except
    \/ skip_method
    \/ session_continue

Spec == Init /\ [][Next]_vars

InitCleaner ==
    /\ entry = "cleaner"
    /\ caller = "main"
    /\ csv_files = <<>>
    /\ pc = "clean"
    /\ probe \in {Probe(raw, "none", Null) : raw \in AllStrings(CellChars, MaxLen)}
    /\ Idle

NextCleaner ==
    \/ clean_analyzer_price
    \/ clean_analyzer_ratings
    \/ clean_analyzer_count
    \/ clean_dashboard_price
    \/ clean_dashboard_ratings
    \/ clean_dashboard_count

SpecCleaner == InitCleaner /\ [][NextCleaner]_vars

\* The quality score of either entry point on one cleaned rating and one
\* cleaned review count.
InitScore ==
    /\ entry = "scorer"
    /\ caller = "main"
    /\ csv_files = <<>>
    /\ pc = "score"
    /\ probe \in {Probe(<<rating, count>>, "none", Null) :
                     rating \in ScoredRatings, count \in 0..MaxCount}
    /\ Idle

NextScore == score_analyzer \/ score_dashboard

SpecScore == InitScore /\ [][NextScore]_vars

\* main() of the analyzer alone.
NextMain ==
    \/ load_data
    \/ data_cleaning
    \/ feature_engineering
    \/ build_rating_prediction_model
    \/ build_success_classification_model
    \/ product_clustering
    \/ advanced_analytics
    \/ generate_business_insights
    \/ save_results
    \/ main_completed
    \/ main_except
    \/ main_finally

SpecMain == InitAnalyzer /\ [][NextMain]_vars

\* The prices classified: the positive multiples of 100 up to 100 MaxPrice.
TierPrices == {100 * k * Unit : k \in 1..MaxPrice}

InitTier ==
    /\ entry = "tiers"
    /\ caller = "main"
    /\ csv_files = <<>>
    /\ pc = "tier"
    /\ probe \in {Probe(price, "none", <<>>) : price \in TierPrices}
    /\ Idle

NextTier == tier_dashboard \/ tier_analyzer

SpecTier == InitTier /\ [][NextTier]_vars

-----------------------------------------------------------------------------
(* Vocabulary of the properties *)

Range(s) == {s[i] : i \in 1..Len(s)}

\* The working set: the table left by cleaning and filtering, once the
\* filter has run.
Filtered == "filter" \in Range(trace)
WorkingSet == IF Filtered THEN processed_df.rows ELSE <<>>

\* The k-th smallest of a sequence of integers, by rank.
Kth(values, k) ==
    CHOOSE v \in Range(values) :
        /\ Cardinality({i \in 1..Len(values) : values[i] < v}) < k
        /\ k <= Cardinality({i \in 1..Len(values) : values[i] <= v})

Counts(rows) == [i \in 1..Len(rows) |-> rows[i].no_of_ratings_clean.v]

\* Ten times the 70th percentile of the values: the value of rank
\* ceil(0.7 n) (nearest rank), or the linear interpolation at position
\* 0.7 (n - 1) between the two values around it.
NearestRank70(values) == 10 * Kth(values, (7 * Len(values) + 9) \div 10)
Interpolated70(values) ==
    LET j == (7 * (Len(values) - 1)) \div 10
        r == (7 * (Len(values) - 1)) % 10
    IN  IF r = 0 THEN 10 * Kth(values, j + 1)
        ELSE (10 - r) * Kth(values, j + 1) + r * Kth(values, j + 2)

HighRating(r) == r.ratings_clean.v >= 4 * Unit

\* C1: once the success label is computed over a working set, a record is
\* labelled successful if and only if its rating is at least 4.0 and its
\* review count is at least the 70th percentile of the review counts of
\* that same working set: in build_success_classification_model over
\* feature_df (nearest-rank percentile of percentile_approx) and in
\* create_performance_dashboard over processed_df (interpolated quantile).
C1_SuccessLabel ==
    /\ (entry = "analyzer" /\ ~model_df.isNone) =>
          /\ Len(model_df.rows) = Len(feature_df.rows)
          /\ \A i \in 1..Len(model_df.rows) :
                /\ model_df.rows[i].name = feature_df.rows[i].name
                /\ model_df.rows[i].no_of_ratings_clean
                      = feature_df.rows[i].no_of_ratings_clean
                /\ model_df.rows[i].is_successful \in {0, 1}
                /\ (model_df.rows[i].is_successful = 1) <=>
                      /\ HighRating(feature_df.rows[i])
                      /\ 10 * feature_df.rows[i].no_of_ratings_clean.v
                            >= NearestRank70(Counts(feature_df.rows))
    /\ (entry = "dashboard" /\ ~processed_df.isNone) =>
          \A i \in 1..Len(processed_df.rows) :
             "is_successful" \in DOMAIN processed_df.rows[i] =>
                (processed_df.rows[i].is_successful <=>
                    /\ HighRating(processed_df.rows[i])
                    /\ 10 * processed_df.rows[i].no_of_ratings_clean.v
                          >= Interpolated70(Counts(processed_df.rows)))

\* C1 witness: the analyzer has labelled a working set in which two records
\* both have a rating of at least 4.0 and only one is successful, so the
\* review-count percentile decided.
C1_Witness ==
    /\ entry = "analyzer"
    /\ ~model_df.isNone
    /\ \E i, j \in 1..Len(model_df.rows) :
          /\ HighRating(model_df.rows[i])
          /\ HighRating(model_df.rows[j])
          /\ model_df.rows[i].is_successful = 1
          /\ model_df.rows[j].is_successful = 0

\* The rating a raw string denotes when it is one digit 0-5, a point and
\* one digit: that number; missing for every other string.
ClaimedRating(raw) ==
    IF /\ Len(raw) = 3
       /\ raw[1] \in {"0", "1", "2", "3", "4", "5"}
       /\ raw[2] = "."
       /\ raw[3] \in Digits
    THEN Num(DigitVal(raw[1]) * Unit + DigitVal(raw[3]) * (Unit \div 10))
    ELSE Null

\* C2: the rating cleaner of either entry point gives the number written
\* by a string made of one digit 0-5, a point and one digit 0-9, and a
\* missing value for every other string.
C2_RatingCleaning ==
    probe.fn \in {"analyzer_ratings", "dashboard_ratings"} =>
        probe.out = ClaimedRating(probe.raw)

\* The cleaned fields of a record are numbers (not missing, not text).
HasRating(r) == IsNum(r.ratings_clean)
HasPrice(r) == IsNum(r.discount_price_clean)
HasCount(r) == IsNum(r.no_of_ratings_clean)

\* C3: after cleaning and filtering, every record of the working set of
\* either entry point has a cleaned rating r with 1 <= r <= 5.
C3_RatingRange ==
    \A i \in 1..Len(WorkingSet) :
        /\ HasRating(WorkingSet[i])
        /\ 1 * Unit <= WorkingSet[i].ratings_clean.v
        /\ WorkingSet[i].ratings_clean.v <= 5 * Unit

\* C4: after cleaning and filtering, every record of the working set has a
\* cleaned discounted price >= 0, a cleaned actual price >= 0 when it is
\* present, and a cleaned review count >= 0.
C4_NonNegative ==
    \A i \in 1..Len(WorkingSet) :
        /\ HasPrice(WorkingSet[i])
        /\ WorkingSet[i].discount_price_clean.v >= 0
        /\ HasCount(WorkingSet[i])
        /\ WorkingSet[i].no_of_ratings_clean.v >= 0
        /\ IsNull(WorkingSet[i].actual_price_clean)
              \/ /\ IsNum(WorkingSet[i].actual_price_clean)
                 /\ WorkingSet[i].actual_price_clean.v >= 0

\* The records that carry a derived discount percentage.
Discounted ==
    LET rows == IF entry = "analyzer" THEN feature_df.rows
                ELSE processed_df.rows
    IN  {rows[i] : i \in {j \in 1..Len(rows) :
                             "discount_percentage" \in DOMAIN rows[j]}}

\* C5: the discount percentage of every record is >= 0; it is exactly 0
\* when the cleaned discounted price is >= the cleaned actual price or the
\* actual price is missing, and (actual - discounted) / actual * 100
\* otherwise, the divisor being neither zero nor missing.
C5_DiscountPercentage ==
    \A r \in Discounted :
        LET a == r.actual_price_clean
            d == r.discount_price_clean
            pct == r.discount_percentage
        IN  /\ pct.den > 0
            /\ pct.num >= 0
            /\ IF IsNull(a) \/ (IsNum(a) /\ IsNum(d) /\ d.v >= a.v)
               THEN pct.num = 0
               ELSE /\ IsNum(a) /\ IsNum(d)
                    /\ a.v # 0
                    /\ pct = Ratio(a.v - d.v, a.v)

\* A price written as the currency symbol followed by digits and thousands
\* separators, and the number it writes.
WellFormedPrice(raw) ==
    /\ Len(raw) >= 2
    /\ raw[1] = "R"
    /\ raw[2] \in Digits
    /\ \A i \in 2..Len(raw) : raw[i] \in Digits \cup {","}
WrittenPrice(raw) ==
    LET digits == SelectSeq(raw, LAMBDA c : c \in Digits)
    IN  Num(DigitsValue(digits) * Unit)
\* A price holding a letter, like "N/A".
MalformedPrice(raw) == \E i \in 1..Len(raw) : raw[i] = "x"

\* C6: the price cleaner of either entry point gives a price written with
\* the currency symbol, digits and thousands separators its numeric value,
\* and a malformed price string a missing value.
C6_PriceCleaning ==
    probe.fn \in {"analyzer_price", "dashboard_price"} =>
        /\ WellFormedPrice(probe.raw) => probe.out = WrittenPrice(probe.raw)
        /\ MalformedPrice(probe.raw) => probe.out = Null

\* C7: after the filter, no record of the working set misses a required
\* field: price, rating, review count or category.
C7_RequiredFields ==
    \A i \in 1..Len(WorkingSet) :
        /\ HasPrice(WorkingSet[i])
        /\ HasRating(WorkingSet[i])
        /\ HasCount(WorkingSet[i])
        /\ WorkingSet[i].main_category # ""

\* C8: on a table that was read, cleaning and filtering never raise: an
\* error before the end of the filter can only be the missing input.
C8_CleaningNeverFails ==
    (error # "" /\ ~Filtered) => csv_files = <<>>

\* C9: when no source file exists, the load raises, the error is reported,
\* no stage runs and no table is set: the run only goes from the load to
\* the handler and ends, having printed the error of the load.
C9_InputMissingFatal ==
    csv_files = <<>> =>
        /\ raw_df = None /\ processed_df = None /\ feature_df = None
        /\ model_df = None /\ clustered_df = None
        /\ trace = <<>> /\ models = {} /\ saved = {}
        /\ entry = "analyzer" =>
              /\ pc \in {"load_data", "except", "finally", "done"}
              /\ pc # "load_data" =>
                    error = "ValueError: No CSV files found in the specified path"
              /\ pc \in {"finally", "done"} =>
                    printed = << <<"Error during analysis", error>> >>
        /\ entry = "dashboard" =>
              /\ pc \in {"load_and_process_data", "except", "done"}
              /\ pc # "load_and_process_data" => error = "FileNotFoundError"
              /\ pc = "done" => printed = << <<"Error: Data file not found">> >>

\* C9 witness: the analyzer found no file, and its run has ended with the
\* error of the load printed and the session stopped.
C9_Witness ==
    /\ entry = "analyzer"
    /\ csv_files = <<>>
    /\ pc = "done"
    /\ spark_stopped = 1
    /\ Len(printed) = 1
    /\ printed[1][2] = "ValueError: No CSV files found in the specified path"

\* The place of a stage in the order load, deduplicate, clean, filter,
\* derive, (aggregate | train | cluster), report / persist.
StageRank(stage) ==
    CASE stage = "load" -> 1
      [] stage = "deduplicate" -> 2
      [] stage = "clean" -> 3
      [] stage = "filter" -> 4
      [] stage = "derive" -> 5
      [] stage \in {"aggregate", "train", "cluster"} -> 6
      [] stage \in {"report", "persist"} -> 7

\* C10: in every run of either entry point no stage starts before every
\* earlier stage of the order has completed (so features are derived only
\* after the filter), and persist runs last.
C10_StageOrder ==
    \A j \in 1..Len(trace) :
        /\ \A k \in 1..(StageRank(trace[j]) - 1) :
              \E i \in 1..(j - 1) : StageRank(trace[i]) = k
        /\ trace[j] = "persist" => j = Len(trace)

\* The aggregation and reporting operations, by the position of the caller
\* that is about to run them.
ReportingOperations ==
    {"create_category_analysis", "create_pricing_analysis",
     "create_performance_dashboard", "create_market_opportunity_analysis",
     "generate_executive_summary", "advanced_analytics",
     "generate_business_insights"}

\* C11: the aggregation and reporting operations are read-only on the
\* feature table: a step of any of them leaves the working table of its
\* entry point (processed_df of the dashboard, feature_df of the analyzer)
\* with the same rows, the same columns and the same values.
C11_ReportingReadOnly ==
    [][(pc \in ReportingOperations) =>
          (processed_df' = processed_df /\ feature_df' = feature_df)]_vars

\* The quality score the entry point of the probe gives a rating and a
\* review count.
ScoreOf(fn, rating, count) ==
    IF fn = "analyzer_quality_score"
    THEN analyzer_quality_score(Num(rating), Num(count))
    ELSE dashboard_quality_score(Num(rating), Num(count))

\* C12: for every rating in [1,5] and every review count >= 0 the quality
\* score of either entry point is a number (also at zero reviews), no
\* greater rating at the same count has a smaller score, and no greater
\* count at the same rating has a smaller score.
C12_QualityScoreMonotone ==
    probe.fn \in {"analyzer_quality_score", "dashboard_quality_score"} =>
        /\ IsNum(probe.out)
        /\ \A rating \in ScoredRatings :
              rating >= probe.raw[1] =>
                 LET q == ScoreOf(probe.fn, rating, probe.raw[2])
                 IN  IsNum(q) /\ q.v >= probe.out.v
        /\ \A count \in 0..MaxCount :
              count >= probe.raw[2] =>
                 LET q == ScoreOf(probe.fn, probe.raw[1], count)
                 IN  IsNum(q) /\ q.v >= probe.out.v

\* C12 witness: the score of a record without reviews is defined, and is
\* strictly below the score of the same rating with reviews.
C12_Witness ==
    /\ probe.fn = "analyzer_quality_score"
    /\ probe.raw[2] = 0
    /\ IsNum(probe.out)
    /\ probe.out.v < ScoreOf(probe.fn, probe.raw[1], MaxCount).v

\* The printed reports of a kind, in the order of printing.
Reports(kind) ==
    LET of_kind == SelectSeq(printed, LAMBDA p : p[1] = kind)
    IN  [i \in 1..Len(of_kind) |-> of_kind[i][2]]

\* The names of the price segments of each policy.
TertileSegments == {"Budget", "Mid-Range", "Premium"}
FiveTierSegments == {"Budget", "Economy", "Mid-Range", "Premium", "Luxury"}
FiveTierBuckets ==
    {"Under 500", "500-1000", "1000-2000", "2000-5000", "Above 5000"}

\* C13: every record of the working set gets exactly one named price
\* segment, fixed by its price alone: under the tertile policy of
\* feature_engineering, under the five tiers of create_pricing_analysis,
\* and under the five buckets of advanced_analytics, whose groups hold
\* every record once.
C13_PriceSegmentPartition ==
    /\ (entry = "analyzer" /\ ~feature_df.isNone) =>
          /\ \A i, j \in 1..Len(feature_df.rows) :
                /\ feature_df.rows[i].price_segment \in TertileSegments
                /\ feature_df.rows[i].discount_price_clean
                       = feature_df.rows[j].discount_price_clean
                      => feature_df.rows[i].price_segment
                            = feature_df.rows[j].price_segment
          /\ \A k \in 1..Len(Reports("price_analysis")) :
                LET groups == Reports("price_analysis")[k] IN
                /\ \A g \in 1..Len(groups) :
                      groups[g].price_bucket \in FiveTierBuckets
                /\ Sum([g \in 1..Len(groups) |-> groups[g].product_count])
                      = Len(feature_df.rows)
    /\ (entry = "dashboard" /\ ~processed_df.isNone) =>
          \A i, j \in 1..Len(processed_df.rows) :
             "price_segment" \in DOMAIN processed_df.rows[i] =>
                /\ processed_df.rows[i].price_segment \in FiveTierSegments
                /\ processed_df.rows[i].discount_price_clean
                       = processed_df.rows[j].discount_price_clean
                      => processed_df.rows[i].price_segment
                            = processed_df.rows[j].price_segment

\* The records of a table in a (category, sub-category) group.
GroupOf(rows, category, sub_category) ==
    {i \in 1..Len(rows) : /\ rows[i].main_category = category
                          /\ rows[i].sub_category = sub_category}

RECURSIVE Demand(_, _)
Demand(rows, group) ==
    IF group = {} THEN 0
    ELSE LET i == CHOOSE i \in group : TRUE
         IN  rows[i].no_of_ratings_clean.v + Demand(rows, group \ {i})

\* A market-opportunity report over a table: each listed group has as
\* product count the number of its records, as demand signal the sum of
\* their review counts and as score their quotient, and the groups stand
\* in descending order of score.
OpportunityReport(report, rows) ==
    /\ \A k \in 1..Len(report) :
          LET group == GroupOf(rows, report[k].main_category,
                               report[k].sub_category)
          IN  /\ group # {}
              /\ report[k].current_products = Cardinality(group)
              /\ report[k].demand_signal = Demand(rows, group)
              /\ report[k].opportunity_score.num = report[k].demand_signal
              /\ report[k].opportunity_score.den = report[k].current_products
    /\ \A k, l \in 1..Len(report) :
          k < l => report[k].demand_signal * report[l].current_products
                      >= report[l].demand_signal * report[k].current_products

\* C14: each run of a market-opportunity analysis prints a report of the
\* (category, sub-category) groups with their product count, demand signal
\* and opportunity score, in descending order of score: advanced_analytics
\* of the analyzer over feature_df, and
\* create_market_opportunity_analysis of the dashboard over processed_df.
C14_MarketOpportunityReport ==
    [][/\ (entry = "analyzer" /\ pc = "advanced_analytics" /\ pc' # pc
             /\ printed' # printed) =>
             /\ Len(Reports("market_gaps")') = Len(Reports("market_gaps")) + 1
             /\ OpportunityReport(
                    Reports("market_gaps")'[Len(Reports("market_gaps")')],
                    feature_df.rows)
       /\ (entry = "dashboard" /\ pc = "create_market_opportunity_analysis"
             /\ (error' # error \/ printed' # printed)) =>
             /\ error' = error
             /\ Len(Reports("market_opportunities")')
                   = Len(Reports("market_opportunities")) + 1
             /\ OpportunityReport(
                    Reports("market_opportunities")'[
                        Len(Reports("market_opportunities")')],
                    processed_df.rows)]_vars

\* The columns that identify a reported product.
Identity == {"name", "main_category", "ratings_clean", "discount_price_clean"}

\* The prices of the records of r's category.
CategoryPrices(rows, r) ==
    LET g == SelectSeq(rows, LAMBDA o : o.main_category = r.main_category)
    IN  [i \in 1..Len(g) |-> g[i].discount_price_clean.v]

\* r's price is at or below the median price of its category: twice the
\* price is at most the sum of the two middle prices by rank.
AtOrBelowCategoryMedian(rows, r) ==
    LET p == CategoryPrices(rows, r)
    IN  2 * r.discount_price_clean.v
           <= Kth(p, (Len(p) + 1) \div 2) + Kth(p, Len(p) \div 2 + 1)

\* The high-rating products of a table priced at or below the median of
\* their category.
Underpriced(rows) ==
    {Project(rows[i], Identity) :
        i \in {j \in 1..Len(rows) :
                 /\ rows[j].main_category # ""
                 /\ 10 * rows[j].ratings_clean.v >= 45 * Unit
                 /\ AtOrBelowCategoryMedian(rows, rows[j])}}

Listed(report) == {Project(report[i], Identity) : i \in 1..Len(report)}

\* C15: every "underpriced" report printed by either entry point lists only
\* high-rating products of the working set priced at or below the median
\* price of their own category, and, unless it was cut at 10 items, lists
\* all of them.
C15_UnderpricedReport ==
    \A k \in 1..Len(Reports("underpriced")) :
        LET report == Reports("underpriced")[k] IN
            /\ Listed(report) \subseteq Underpriced(WorkingSet)
            /\ Len(report) < 10 => Listed(report) = Underpriced(WorkingSet)
\* The columns of the input files, and the columns added by cleaning.
OriginalColumns ==
    {"name", "main_category", "sub_category", "ratings", "no_of_ratings",
     "discount_price", "actual_price"}
CleanColumns ==
    {"discount_price_clean", "actual_price_clean", "ratings_clean",
     "no_of_ratings_clean"}

\* Every row of the table holds, in the original columns, the values of a
\* row of the raw table.
KeepsRawValues(table, raw) ==
    table # None =>
        /\ raw # None
        /\ \A i \in 1..Len(table.rows) :
              Project(table.rows[i], OriginalColumns) \in Range(raw.rows)

\* C16: cleaning leaves the source rows alone.  The raw table, once loaded,
\* never changes; every record of the cleaned table (and of the feature
\* table built from it) holds in every original column the value of a
\* record of the raw table; and once cleaning and filtering are done the
\* cleaned values are held in the four new columns.
C16_CleaningPure ==
    [][/\ raw_df # None => raw_df' = raw_df
       /\ KeepsRawValues(processed_df', raw_df')
       /\ KeepsRawValues(feature_df', raw_df')
       /\ Filtered' =>
             \A i \in 1..Len(processed_df'.rows) :
                 CleanColumns \subseteq DOMAIN processed_df'.rows[i]]_vars

\* A cleaned table with a record whose price text carries a currency sign
\* and a thousands separator next to the number cleaned from it.
C16_Witness ==
    /\ Filtered
    /\ raw_df # None
    /\ \E i \in 1..Len(processed_df.rows) :
          LET r == processed_df.rows[i] IN
              /\ r.actual_price = <<"R", "1", ",", "2", "3", "4">>
              /\ r.actual_price_clean = Num(1234 * Unit)
              /\ Project(r, OriginalColumns) \in Range(raw_df.rows)
ClusterColumns ==
    {"name", "main_category", "ratings_clean", "discount_price_clean",
     "quality_score", "prediction"}

\* The table written at a path, the empty set when none was.
Written(tables, path) == {t.rows : t \in {u \in tables : u.path = path}}

\* The table holds, for every record of the feature table and in its
\* order, the six columns of the cluster assignment.
ClusterAssignment(rows) ==
    /\ Len(rows) = Len(feature_df.rows)
    /\ \A i \in 1..Len(rows) :
          /\ DOMAIN rows[i] = ClusterColumns
          /\ rows[i].prediction \in 0..4
          /\ \A c \in ClusterColumns \ {"prediction"} :
                rows[i][c] = feature_df.rows[i][c]

\* C17: every call of save_results completes without an exception and
\* writes the feature table; it writes the table of cluster assignments
\* (name, category, rating, price, quality score, cluster id of every
\* record) if product_clustering completed before on the same analyzer,
\* and no second table otherwise.
C17_SaveResults ==
    [][(pc = "save_results" /\ pc' # pc) =>
          /\ pc' = "completed"
          /\ error' = error
          /\ Written(saved', "processed_data") = {feature_df.rows}
          /\ IF "cluster" \in Range(trace)
             THEN /\ Cardinality(saved') = 2
                  /\ \E rows \in Written(saved', "product_clusters") :
                        ClusterAssignment(rows)
             ELSE Cardinality(saved') = 1]_vars

\* A save after a call of product_clustering that raised: the feature
\* table of a non-empty working set is the only table written.
C17_Witness ==
    /\ pc = "completed"
    /\ error = "Exception: clustering could not be fitted"
    /\ "cluster" \notin Range(trace)
    /\ feature_df.rows # <<>>
    /\ saved = {[path |-> "processed_data", rows |-> feature_df.rows]}
\* The positions of the records of the category of record i.
CategoryOf(rows, i) ==
    {j \in 1..Len(rows) : rows[j].main_category = rows[i].main_category}

\* The rank column numbers the records of every category 1..n, a record of
\* strictly greater value before one of smaller value, and records of
\* equal value in the order of the table.
RanksInInputOrder(rows, column, rank) ==
    \A i \in 1..Len(rows) :
        /\ {rows[j][rank] : j \in CategoryOf(rows, i)}
              = 1..Cardinality(CategoryOf(rows, i))
        /\ \A j \in CategoryOf(rows, i) \ {i} :
              /\ rows[j][rank] # rows[i][rank]
              /\ rows[j][column].v > rows[i][column].v
                    => rows[j][rank] < rows[i][rank]
              /\ (rows[j][column].v = rows[i][column].v /\ j < i)
                    => rows[j][rank] < rows[i][rank]

\* C18: in the feature table, popularity_rank and rating_rank number the
\* records of every category 1..n by descending review count and rating,
\* and records of equal count or rating are ranked in their input order.
C18_RankFeatures ==
    feature_df # None =>
        /\ RanksInInputOrder(feature_df.rows, "no_of_ratings_clean",
                             "popularity_rank")
        /\ RanksInInputOrder(feature_df.rows, "ratings_clean", "rating_rank")
\* The sum of a column over the records at the given positions.
RECURSIVE Total(_, _, _)
Total(rows, positions, column) ==
    IF positions = {} THEN 0
    ELSE LET i == CHOOSE i \in positions : TRUE
         IN  rows[i][column].v + Total(rows, positions \ {i}, column)

RECURSIVE TotalNum(_, _, _)
TotalNum(rows, positions, column) ==
    IF positions = {} THEN 0
    ELSE LET i == CHOOSE i \in positions : TRUE
         IN  rows[i][column].num + TotalNum(rows, positions \ {i}, column)

\* a / b = c / d, for positive b and d.
SameQuotient(a, b, c, d) ==
    ~QuotientLess(a, b, c, d) /\ ~QuotientLess(c, d, a, b)

\* The category-relative columns of record r of the feature table, against
\* the records of the working set of r's category: n of them, of total
\* rating and total price as given.
CategoryRelative(r, n, rating_total, price_total) ==
    /\ SameQuotient(r.category_avg_rating.num, r.category_avg_rating.den,
                    rating_total, n)
    /\ SameQuotient(r.category_avg_price.num, r.category_avg_price.den,
                    price_total, n)
    /\ SameQuotient(r.rating_vs_category_avg.num,
                    r.rating_vs_category_avg.den,
                    r.ratings_clean.v * n - rating_total, n)
    /\ SameQuotient(r.price_vs_category_avg.num,
                    r.price_vs_category_avg.den,
                    r.discount_price_clean.v * n - price_total, price_total)

\* C19: for every record r of the feature table, category_avg_rating and
\* category_avg_price are the mean rating and mean price of exactly the
\* records of the working set of r's category, rating_vs_category_avg is
\* r's rating minus that mean rating, price_vs_category_avg is r's price
\* minus that mean price, over that mean price, as a percentage; and the
\* rating deviations of the records of a category, all held over the same
\* denominator, sum to zero.  (Arithmetic is exact.)
C19_CategoryRelative ==
    feature_df # None =>
        \A i \in 1..Len(feature_df.rows) :
            LET r == feature_df.rows[i]
                same == CategoryOf(WorkingSet, i)
            IN  /\ r.main_category = WorkingSet[i].main_category
                /\ CategoryRelative(
                      r, Cardinality(same),
                      Total(WorkingSet, same, "ratings_clean"),
                      Total(WorkingSet, same, "discount_price_clean"))
                /\ \A j \in same :
                      feature_df.rows[j].rating_vs_category_avg.den
                          = r.rating_vs_category_avg.den
                /\ r.rating_vs_category_avg.den > 0
                /\ TotalNum(feature_df.rows, same, "rating_vs_category_avg")
                      = 0

\* A feature table with two records of one category, of different
\* ratings and prices.
C19_Witness ==
    /\ feature_df # None
    /\ \E i, j \in 1..Len(feature_df.rows) :
          LET r == feature_df.rows[i]
              o == feature_df.rows[j]
          IN  /\ r.main_category = o.main_category
              /\ r.rating_vs_category_avg.num > 0
              /\ o.rating_vs_category_avg.num < 0
              /\ r.price_vs_category_avg.num # 0
\* The components of run_complete_analysis, in the order of the claim.
Components ==
    <<"create_overview_dashboard", "create_category_analysis",
      "create_pricing_analysis", "create_performance_dashboard",
      "create_market_opportunity_analysis", "generate_executive_summary">>

\* C20: in a run of the dashboard script over a loaded, non-empty dataset,
\* each of the six components completes and hands over to the next one
\* in the order overview, category analysis, pricing analysis,
\* performance dashboard, market-opportunity analysis, executive summary,
\* and the last one is followed by the print of 'Analysis Complete'.
C20_RunCompleteAnalysis ==
    [][\A k \in 1..Len(Components) :
          (/\ entry = "dashboard"
           /\ caller = "main"
           /\ WorkingSet # <<>>
           /\ pc = Components[k]
           /\ pc' # pc) =>
              IF k < Len(Components)
              THEN pc' = Components[k + 1] /\ error' = ""
              ELSE /\ pc' = "done"
                   /\ error' = ""
                   /\ printed'[Len(printed')] = <<"Analysis Complete">>]_vars
\* The triple that identifies a product: name, category and the price text
\* as loaded.
Triple(r) == <<r.name, r.main_category, r.discount_price>>

\* The positions of the records of a table that carry the triple.
WithTriple(rows, t) == {i \in 1..Len(rows) : Triple(rows[i]) = t}

\* A loaded record that cleaning and filtering keep: price, rating and
\* count clean to values, the category is present, the price is positive
\* and the rating lies in 1..5.
ValidRecord(r) ==
    LET price == analyzer_price_clean(r.discount_price)
        rating == analyzer_ratings_clean(r.ratings)
    IN  /\ r.main_category # ""
        /\ ~IsNull(price)
        /\ price.v > 0
        /\ ~IsNull(rating)
        /\ rating.v >= Unit
        /\ rating.v <= 5 * Unit
        /\ ~IsNull(analyzer_no_of_ratings_clean(r.no_of_ratings))

\* C21: after data_cleaning of the analyzer, no two records of the working
\* set carry the same triple (name, main_category, loaded discount_price),
\* and every triple whose loaded records are all valid is carried by
\* exactly one record of the working set.
C21_Deduplication ==
    [][(pc = "data_cleaning" /\ pc' # pc) =>
          /\ Filtered'
          /\ \A i, j \in 1..Len(WorkingSet') :
                Triple(WorkingSet'[i]) = Triple(WorkingSet'[j]) => i = j
          /\ \A t \in {Triple(raw_df.rows[k]) : k \in 1..Len(raw_df.rows)} :
                (\A l \in WithTriple(raw_df.rows, t) :
                    ValidRecord(raw_df.rows[l]))
                  => Cardinality(WithTriple(WorkingSet', t)) = 1]_vars

\* Two files that each hold a valid record of the same triple, cleaned to
\* a working set of one record.
C21_Witness ==
    /\ entry = "analyzer"
    /\ Filtered
    /\ Len(csv_files) = 2
    /\ Len(csv_files[1]) = 1
    /\ Len(csv_files[2]) = 1
    /\ Triple(raw_df.rows[1]) = Triple(raw_df.rows[2])
    /\ ValidRecord(raw_df.rows[1])
    /\ ValidRecord(raw_df.rows[2])
    /\ Len(WorkingSet) = 1
\* The rank of a tier in each of the two classifications, cheapest first.
SegmentIndex ==
    ("Budget" :> 1) @@ ("Economy" :> 2) @@ ("Mid-Range" :> 3)
      @@ ("Premium" :> 4) @@ ("Luxury" :> 5)
BucketIndex ==
    ("Under 500" :> 1) @@ ("500-1000" :> 2) @@ ("1000-2000" :> 3)
      @@ ("2000-5000" :> 4) @@ ("Above 5000" :> 5)

\* C22: for every price p > 0, the tier of the dashboard's price_segment
\* and the tier of the analyzer's price_bucket have the same rank among
\* the five tiers, the prices 500, 1000, 2000 and 5000 included.
C22_TiersAgree ==
    (entry = "tiers" /\ DOMAIN probe.out = {"price_segment", "price_bucket"}) =>
        /\ probe.out.price_segment \in DOMAIN SegmentIndex
        /\ probe.out.price_bucket \in DOMAIN BucketIndex
        /\ SegmentIndex[probe.out.price_segment]
              = BucketIndex[probe.out.price_bucket]
\* How far main has come, by the statement it is at.
MainRank(at) ==
    CASE at = "load_data" -> 1
      [] at = "data_cleaning" -> 2
      [] at = "feature_engineering" -> 3
      [] at = "build_rating_prediction_model" -> 4
      [] at = "build_success_classification_model" -> 5
      [] at = "product_clustering" -> 6
      [] at = "advanced_analytics" -> 7
      [] at = "generate_business_insights" -> 8
      [] at = "save_results" -> 9
      [] at \in {"completed", "except"} -> 10
      [] at = "finally" -> 11
      [] at = "done" -> 12

\* C23: in main, every run ends with the session stopped exactly once.
\* The session is stopped in the last step of the run and in no other; no
\* step follows the stop; a run without exception has run all its stages,
\* the save last, and printed its success; once a stage has raised, no
\* further stage runs and the error is printed before the stop; and
\* each step moves main forward, so no run goes round for ever.
C23_SessionStoppedOnce ==
    /\ [](spark_stopped = IF pc = "done" THEN 1 ELSE 0)
    /\ [][/\ spark_stopped = 0
          /\ spark_stopped' = 1 => (pc = "finally" /\ trace' = trace)
          /\ error # "" => trace' = trace]_vars
    /\ [](pc = "done" =>
            /\ Len(printed) >= 1
            /\ IF error = ""
               THEN /\ printed[Len(printed)]
                         = <<"Analysis completed successfully!">>
                    /\ trace[Len(trace)] = "persist"
                    /\ saved # {}
               ELSE printed[Len(printed)] = <<"Error during analysis", error>>)
    /\ [][MainRank(pc') > MainRank(pc)]_vars

\* A run of main in which clustering raised after both models were
\* trained, ended with the session stopped once and nothing saved.
C23_Witness ==
    /\ entry = "analyzer"
    /\ caller = "main"
    /\ pc = "done"
    /\ spark_stopped = 1
    /\ error = "Exception: clustering could not be fitted"
    /\ "train" \in Range(trace)
    /\ saved = {}
=============================================================================
